---- MODULE Spec2Model ----
(***************************************************************************)
(* Host side of the clock-synchronised network simulation:                 *)
(*   - the big-token codec              (target-design/switch/flit.h)      *)
(*   - the software switch              (target-design/switch/switch.cc)   *)
(*   - the NIC endpoint                 (sim/.../endpoints/simplenic.cc)   *)
(* Three specifications share the module: SpecCodec, SpecSwitch, SpecNic.  *)
(***************************************************************************)
EXTENDS Integers, Sequences, FiniteSets, TLC

(***************************************************************************)
(* State of the codec specification.                                       *)
(***************************************************************************)
VARIABLES
    cbuf,       \* the window being written
    ctoken,     \* tokenid argument
    cflit,      \* flit_buf argument
    clast,      \* is_last argument
    clog,       \* the codec writes applied so far, in order
    cret        \* how the call of write_last_flit ended

codecVars == <<cbuf, ctoken, cflit, clast, clog, cret>>

(***************************************************************************)
(* State of the switch.                                                    *)
(***************************************************************************)
VARIABLES
    NUMUPLINKS,             \* switchconfig.h, fixed at start-up
    pc,                     \* position in main() / do_fast_switching()
    this_iter_cycles_start,
    current_input_buf,      \* per port: the window recv() delivered
    input_in_progress,      \* per port: packet under reassembly, or NULL
    inputqueue,             \* per port: FIFO of reassembled packets
    outputqueue,            \* per port: FIFO of packets awaiting egress
    pqueue,                 \* std::priority_queue<tspacket>, as its heap array
    next_alloc,             \* next address malloc/calloc hands out
    freed,                  \* addresses passed to free()
    recv_port,              \* next port whose recv() completes
    routed,                 \* history: routing decisions of this invocation
    wire_cur,               \* history, per port: flits sent valid since the last `last`
    wire_done,              \* history, per port: packets the sender completed this window
    flits_left,             \* environment budget of valid flits
    sw_args,                \* the command line of the switch process
    ports_constructed,      \* the ports[] entries have been constructed
    phase_log,              \* history: phases of main()'s loop run in this iteration
    dfs_calls               \* history: calls of do_fast_switching that have returned

switchVars == <<NUMUPLINKS, pc, this_iter_cycles_start, current_input_buf,
                input_in_progress, inputqueue, outputqueue, pqueue, next_alloc,
                freed, recv_port, routed, wire_cur, wire_done, flits_left,
                sw_args, ports_constructed, phase_log, dfs_calls>>

(***************************************************************************)
(* State of the NIC endpoint, its FPGA and its shared-memory peer.         *)
(***************************************************************************)
VARIABLES
    loopback,           \* +nic-loopbackN was given
    nic_pc,             \* position in simplenic_t::init() / tick()
    currentround,
    sentinel,           \* per shared buffer: the byte at offset BUF_BYTES
    outgoing_count,     \* FPGA register: big-tokens available to pull
    incoming_count,     \* FPGA register: big-tokens queued by pushes
    tokens_this_round,  \* local of tick(); -1 before the first read
    dma_bytes,          \* byte count the last pull/push returned
    round_at_read,      \* history: currentround when tick() last read the registers
    nic_log,            \* history: what the endpoint did since that read
    nic_args,           \* the arguments the constructor is given
    inv_rounds,         \* history: rounds completed by the current call of tick()
    round_hist          \* history: currentround of the first completed rounds

nicVars == <<loopback, nic_pc, currentround, sentinel, outgoing_count, incoming_count,
             tokens_this_round, dma_bytes, round_at_read, nic_log, nic_args,
             inv_rounds, round_hist>>

(***************************************************************************)
(* State of the rate-limit set-up: the endpoint's constructor and init()   *)
(* up to the write of rlimit_settings, and the switch's main() up to       *)
(* simplify_frac.                                                          *)
(***************************************************************************)
VARIABLES
    rl_pc,              \* position in the endpoint's constructor / init()
    netbw,              \* +netbwN
    netburst,           \* +netburstN
    rlimit_inc,
    rlimit_period,
    rlimit_size,
    rlimit_settings,    \* the 32-bit value written to the register
    thr_pc,             \* position in the switch's main()
    argv_bandwidth,     \* atoi(argv[3]) of the switch
    throttle            \* throttle_numer and throttle_denom after simplify_frac

rlVars == <<rl_pc, netbw, netburst, rlimit_inc, rlimit_period, rlimit_size,
            rlimit_settings, thr_pc, argv_bandwidth, throttle>>

vars == <<codecVars, switchVars, nicVars, rlVars>>

(***************************************************************************)
(* Build-time parameters of the switch (switch.cc).                        *)
(***************************************************************************)
MAX_BW == 200
FLIT_SIZE_BITS == 64
BIGTOKEN_SIZE_BITS == 512
FLIT_SIZE_BYTES == FLIT_SIZE_BITS \div 8
BIGTOKEN_SIZE_BYTES == BIGTOKEN_SIZE_BITS \div 8
TOKENS_PER_BIGTOKEN == (BIGTOKEN_SIZE_BYTES * 8) \div (FLIT_SIZE_BITS + 3)
BROADCAST_ADJUSTED == 65535

\* Number of big-tokens in one link-latency window (bound of the model).
NumBigTokens == 2
\* argv[1]; main() rejects every value that is not a multiple of 7.
LINKLATENCY == NumBigTokens * 7
NUM_TOKENS == LINKLATENCY
NUM_BIGTOKENS == NUM_TOKENS \div TOKENS_PER_BIGTOKEN
BUFSIZE_BYTES == NUM_BIGTOKENS * BIGTOKEN_SIZE_BYTES

(***************************************************************************)
(* uint8_t arithmetic.                                                     *)
(***************************************************************************)
Pow2(n) == 2 ^ n
\* b >> k  on an unsigned byte
Shr(b, k) == b \div Pow2(k)
\* bit k of b
BitAt(b, k) == Shr(b, k) % 2
\* b | (v << k)  for v in {0, 1}, kept to 8 bits as the store to a uint8_t does
OrShl(b, v, k) == IF v = 0 \/ k > 7 \/ BitAt(b, k) = 1 THEN b ELSE b + Pow2(k)

\* A window of big-tokens is a byte array indexed from 0, as in the C code.
ZeroBuf == [a \in 0 .. BUFSIZE_BYTES - 1 |-> 0]

(***************************************************************************)
(* flit.h: the codec.  A flit is a tuple of FLIT_SIZE_BYTES bytes.         *)
(***************************************************************************)
FlitAddr(tokenid) ==
    LET base == tokenid \div TOKENS_PER_BIGTOKEN
        offset == tokenid % TOKENS_PER_BIGTOKEN
    IN  (base * BIGTOKEN_SIZE_BYTES) + (FLIT_SIZE_BYTES * (offset + 1))

get_flit(recv_buf, tokenid) ==
    [i \in 1 .. FLIT_SIZE_BYTES |-> recv_buf[FlitAddr(tokenid) + (i - 1)]]

\* Mutant: the slot is computed without the "+ 1" that skips the header.
write_flit_noskip(send_buf, tokenid, flit_buf) ==
    LET dst == FlitAddr(tokenid) - FLIT_SIZE_BYTES
    IN  [a \in DOMAIN send_buf |->
            IF a >= dst /\ a < dst + FLIT_SIZE_BYTES
            THEN flit_buf[(a - dst) + 1]
            ELSE send_buf[a]]

write_flit(send_buf, tokenid, flit_buf) ==
    LET dst == FlitAddr(tokenid)
    IN  [a \in DOMAIN send_buf |->
            IF a >= dst /\ a < dst + FLIT_SIZE_BYTES
            THEN flit_buf[(a - dst) + 1]
            ELSE send_buf[a]]

\* bit offset of the valid bit of the flit at `offset` inside its big-token
ValidBitOffset(offset) == (FLIT_SIZE_BITS - (TOKENS_PER_BIGTOKEN * 3)) + (offset * 3)
\* bit offset of the last bit
LastBitOffset(offset) == (FLIT_SIZE_BITS - (TOKENS_PER_BIGTOKEN * 3)) + 2 + (offset * 3)
\* lrv = buf + base * BIGTOKEN_SIZE_BYTES
Lrv(tokenid) == (tokenid \div TOKENS_PER_BIGTOKEN) * BIGTOKEN_SIZE_BYTES

write_valid_flit(send_buf, tokenid) ==
    LET bitoffset == ValidBitOffset(tokenid % TOKENS_PER_BIGTOKEN)
        addr == Lrv(tokenid) + (bitoffset \div 8)
    IN  [send_buf EXCEPT ![addr] = OrShl(@, 1, bitoffset % 8)]

\* Mutant: the last bit is stored whatever is_last says.
write_last_flit_always(send_buf, tokenid, is_last) ==
    LET bitoffset == LastBitOffset(tokenid % TOKENS_PER_BIGTOKEN)
        addr == Lrv(tokenid) + (bitoffset \div 8)
    IN  [send_buf EXCEPT ![addr] = OrShl(@, 1, bitoffset % 8)]

\* The store of write_last_flit.  The function is declared int and flows off
\* its end without a return statement: see WriteLastOutcomes for how a call
\* ends.
write_last_flit(send_buf, tokenid, is_last) ==
    LET bitoffset == LastBitOffset(tokenid % TOKENS_PER_BIGTOKEN)
        addr == Lrv(tokenid) + (bitoffset \div 8)
    IN  [send_buf EXCEPT ![addr] = OrShl(@, IF is_last THEN 1 ELSE 0, bitoffset % 8)]

\* return *(lrv + bitoffset/8) >> (bitoffset % 8);  converted to bool:
\* every non-zero value of the shifted byte is true.
is_valid_flit(recv_buf, tokenid) ==
    LET bitoffset == ValidBitOffset(tokenid % TOKENS_PER_BIGTOKEN)
    IN  Shr(recv_buf[Lrv(tokenid) + (bitoffset \div 8)], bitoffset % 8) # 0

is_last_flit(recv_buf, tokenid) ==
    LET bitoffset == LastBitOffset(tokenid % TOKENS_PER_BIGTOKEN)
    IN  Shr(recv_buf[Lrv(tokenid) + (bitoffset \div 8)], bitoffset % 8) # 0

(***************************************************************************)
(* The wire format's meta bits themselves (read with a one-bit mask).      *)
(***************************************************************************)
WireValidBit(buf, tokenid) ==
    LET bitoffset == ValidBitOffset(tokenid % TOKENS_PER_BIGTOKEN)
    IN  BitAt(buf[Lrv(tokenid) + (bitoffset \div 8)], bitoffset % 8) = 1

WireLastBit(buf, tokenid) ==
    LET bitoffset == LastBitOffset(tokenid % TOKENS_PER_BIGTOKEN)
    IN  BitAt(buf[Lrv(tokenid) + (bitoffset \div 8)], bitoffset % 8) = 1

(***************************************************************************)
(* Codec specification: one token of a zeroed window is written by the     *)
(* three codec writes, each at most once, in any order.                    *)
(***************************************************************************)
CodecPayloads == { <<222, 173, 190, 239, 0, 0, 0, 0>>,
                   <<255, 255, 255, 255, 255, 255, 255, 255>> }

CodecInit ==
    /\ cbuf = ZeroBuf
    /\ ctoken \in 0 .. NUM_TOKENS - 1
    /\ cflit \in CodecPayloads
    /\ clast \in BOOLEAN
    /\ clog = << >>
    /\ cret = "not_called"

\* write_last_flit flows off the end of a function declared int, which the
\* language leaves undefined: after the store, either the call returns with
\* an indeterminate value (none of the callers reads it) or control does not
\* come back to the caller.
WriteLastOutcomes == {"returned_indeterminate", "no_return"}

CodecDone(op) == \E i \in 1 .. Len(clog) : clog[i] = op

CodecWriteFlit ==
    /\ cret # "no_return"
    /\ ~CodecDone("write_flit")
    /\ cbuf' = write_flit(cbuf, ctoken, cflit)
    /\ clog' = Append(clog, "write_flit")
    /\ UNCHANGED <<ctoken, cflit, clast, cret>>
    /\ UNCHANGED <<switchVars, nicVars, rlVars>>

CodecWriteValid ==
    /\ cret # "no_return"
    /\ ~CodecDone("write_valid_flit")
    /\ cbuf' = write_valid_flit(cbuf, ctoken)
    /\ clog' = Append(clog, "write_valid_flit")
    /\ UNCHANGED <<ctoken, cflit, clast, cret>>
    /\ UNCHANGED <<switchVars, nicVars, rlVars>>

CodecWriteLast ==
    /\ ~CodecDone("write_last_flit")
    /\ cbuf' = write_last_flit(cbuf, ctoken, clast)
    /\ clog' = Append(clog, "write_last_flit")
    /\ cret' \in WriteLastOutcomes
    /\ UNCHANGED <<ctoken, cflit, clast>>
    /\ UNCHANGED <<switchVars, nicVars, rlVars>>

CodecNext == CodecWriteFlit \/ CodecWriteValid \/ CodecWriteLast

\* the three writes have been applied, in whatever order
CodecRoundTripDone ==
    /\ CodecDone("write_flit")
    /\ CodecDone("write_valid_flit")
    /\ CodecDone("write_last_flit")

\* C8: codec round trip.  From a zeroed window, write_flit, write_valid_flit
\* and write_last_flit(last) at a tokenid, followed by reads at the same
\* tokenid, give back the payload, valid = true and last = the value written.
C8_CodecRoundTrip ==
    CodecRoundTripDone =>
        /\ get_flit(cbuf, ctoken) = cflit
        /\ is_valid_flit(cbuf, ctoken)
        /\ (is_last_flit(cbuf, ctoken) <=> clast)

\* C8 witness: the round trip ran on a token of the second big-token with
\* last = false and an all-ones payload.
C8_Witness ==
    /\ CodecRoundTripDone
    /\ ctoken >= TOKENS_PER_BIGTOKEN
    /\ ~clast
    /\ cflit = <<255, 255, 255, 255, 255, 255, 255, 255>>

\* C9: meta-bit isolation.  is_valid_flit(buf, t) is true exactly when the
\* valid bit of token t is set and is_last_flit(buf, t) exactly when the last
\* bit of token t is set, whatever the other bits of the big-token are.
C9_MetaBitIsolation ==
    \A t \in 0 .. NUM_TOKENS - 1 :
        /\ (is_valid_flit(cbuf, t) <=> WireValidBit(cbuf, t))
        /\ (is_last_flit(cbuf, t) <=> WireLastBit(cbuf, t))


(***************************************************************************)
(* switch.cc: the software switch.                                         *)
(***************************************************************************)
\* argv[2]: switching latency in cycles.
switchlat == 2
SWITCHLATENCY == switchlat
\* argv[3]: bandwidth in Gbps.
bandwidth == 200

\* switchconfig.h (static topology): ports 0 .. NUMDOWNLINKS-1 are downlinks,
\* the NUMUPLINKS ports after them are uplinks.
NUMDOWNLINKS == 1
\* The uplink counts the model is built with.
UplinkConfigs == {0, 1, 2}

\* Bounds of the environment: valid flits the senders put on the wire over a
\* run, and the number of iterations of the main loop.
MaxFlits == 3
MaxIters == 2

NUMPORTS == NUMDOWNLINKS + NUMUPLINKS
Ports == 0 .. NUMPORTS - 1
NULL == [id |-> -1]

\* switchconfig.h: MAC m of a node below the switch maps to downlink m; the
\* MAC after them is reached through an uplink (the value NUMDOWNLINKS).
mac2port == [m \in 0 .. NUMDOWNLINKS |-> m]

\* static void simplify_frac(int n, int d, int *nn, int *dd)
\* The operators % and / of int: the quotient is truncated towards zero and
\* the remainder has the sign of the dividend.
Abs(x) == IF x < 0 THEN -x ELSE x
CDiv(a, b) == IF (a < 0) = (b < 0) THEN Abs(a) \div Abs(b) ELSE -(Abs(a) \div Abs(b))
CRem(a, b) == a - b * CDiv(a, b)
RECURSIVE GcdLoop(_, _)
GcdLoop(a, b) == IF b > 0 THEN GcdLoop(b, CRem(a, b)) ELSE a
simplify_frac(n, d) == LET a == GcdLoop(n, d) IN [nn |-> CDiv(n, a), dd |-> CDiv(d, a)]
throttle_numer == simplify_frac(bandwidth, MAX_BW).nn
throttle_denom == simplify_frac(bandwidth, MAX_BW).dd

(***************************************************************************)
(* What the senders put on the wire.                                       *)
(***************************************************************************)
\* First flit of a frame for MAC `mac`: bytes 6 and 7 carry it big-endian.
HdrUnicast(tag, mac) == <<tag, 0, 0, 0, 0, 0, mac \div 256, mac % 256>>
\* First flit of a frame with the multicast bit (bit 16) set.
HdrMulticast == <<176, 0, 1, 0, 0, 0, 255, 255>>

FlitKinds ==
    { [flit |-> HdrUnicast(161, 0), last |-> TRUE],
      [flit |-> HdrUnicast(162, 0), last |-> FALSE],
      [flit |-> HdrUnicast(163, NUMDOWNLINKS), last |-> TRUE],
      [flit |-> HdrMulticast, last |-> TRUE] }

\* Token slots the senders use: one in the first big-token, one in the last.
Slots == {1, NUM_TOKENS - 2}

\* A window's content: at most two valid flits, in increasing slot order.
WindowScripts ==
    { << >> }
    \cup { <<[slot |-> s, flit |-> k.flit, last |-> k.last]>> : s \in Slots, k \in FlitKinds }
    \cup { <<[slot |-> 1, flit |-> k1.flit, last |-> k1.last],
             [slot |-> NUM_TOKENS - 2, flit |-> k2.flit, last |-> k2.last]>> :
           k1 \in FlitKinds, k2 \in FlitKinds }

\* The sender encodes its flits into a zeroed window with the codec.
RECURSIVE EncodeWindow(_, _)
EncodeWindow(buf, script) ==
    IF script = << >> THEN buf
    ELSE LET w == Head(script)
         IN  EncodeWindow(
                 write_last_flit(
                     write_valid_flit(write_flit(buf, w.slot, w.flit), w.slot),
                     w.slot, w.last),
                 Tail(script))

\* History: the packets the sender's flits make up.
RECURSIVE WireAfter(_, _)
WireAfter(st, script) ==
    IF script = << >> THEN st
    ELSE LET w == Head(script)
             cur == Append(st.cur, w.flit)
         IN  WireAfter(IF w.last THEN [cur |-> << >>, done |-> Append(st.done, cur)]
                                 ELSE [cur |-> cur, done |-> st.done],
                       Tail(script))


(***************************************************************************)
(* do_fast_switching, phase 1: reassembly of one port's window.            *)
(* A switchpacket is a record; id and dat_id are the addresses calloc      *)
(* returned for the struct and for its dat buffer.  dat holds the flits    *)
(* written so far (amtwritten of them).                                    *)
(***************************************************************************)
\* Capacity of a packet's dat buffer in flits: calloc(FLIT_SIZE_BYTES,
\* ETH_MAX_WORDS + ETH_EXTRA_FLITS).  The two macros come from a header of
\* the ports; they are scaled down here to a capacity of two flits.
ETH_MAX_WORDS == 1
ETH_EXTRA_FLITS == 1
DatCapacity == ETH_MAX_WORDS + ETH_EXTRA_FLITS

NewPacket(addr, port, tokenno) ==
    [id |-> addr, dat_id |-> addr + 1,
     timestamp |-> this_iter_cycles_start + tokenno + SWITCHLATENCY,
     sender |-> port, dat |-> << >>, amtwritten |-> 0, amtread |-> 0]

\* Body of the loop over tokenno; st = [iip, inq, alloc].
ReassembleToken(port, tokenno, st) ==
    LET input_port_buf == current_input_buf[port]
    IN  IF is_valid_flit(input_port_buf, tokenno)
        THEN LET flit == get_flit(input_port_buf, tokenno)
                 fresh == st.iip = NULL
                 sp0 == IF fresh THEN NewPacket(st.alloc, port, tokenno) ELSE st.iip
                 sp == [sp0 EXCEPT !.dat = Append(@, flit), !.amtwritten = @ + 1]
                 alloc == IF fresh THEN st.alloc + 2 ELSE st.alloc
             IN  IF is_last_flit(input_port_buf, tokenno)
                 THEN [iip |-> NULL, inq |-> Append(st.inq, sp), alloc |-> alloc]
                 ELSE [iip |-> sp, inq |-> st.inq, alloc |-> alloc]
        ELSE st

RECURSIVE ReassembleFrom(_, _, _)
ReassembleFrom(port, tokenno, st) ==
    IF tokenno < NUM_TOKENS
    THEN ReassembleFrom(port, tokenno + 1, ReassembleToken(port, tokenno, st))
    ELSE st

\* The loop over ports; the ports' states are disjoint, the allocator is shared.
RECURSIVE ReassemblePorts(_, _)
ReassemblePorts(port, acc) ==
    IF port < NUMPORTS
    THEN LET st == ReassembleFrom(port, 0,
                       [iip |-> acc.iip[port], inq |-> acc.inq[port], alloc |-> acc.alloc])
         IN  ReassemblePorts(port + 1,
                 [iip |-> [acc.iip EXCEPT ![port] = st.iip],
                  inq |-> [acc.inq EXCEPT ![port] = st.inq],
                  alloc |-> st.alloc])
    ELSE acc

(***************************************************************************)
(* std::priority_queue<tspacket>: a binary heap in an array (push_heap and  *)
(* pop_heap of the standard library), ordered by tspacket::operator<.       *)
(***************************************************************************)
\* Mutant: the comparison the other way round (latest timestamp on top).
tspacket_less_reversed(a, o) == a.timestamp < o.timestamp

\* bool operator<(const tspacket &o) const { return timestamp > o.timestamp; }
tspacket_less(a, o) == a.timestamp > o.timestamp

RECURSIVE PushHeap(_, _, _, _)
PushHeap(h, hole, top, value) ==
    LET parent == (hole - 1) \div 2
    IN  IF hole > top /\ tspacket_less(h[parent + 1], value)
        THEN PushHeap([h EXCEPT ![hole + 1] = h[parent + 1]], parent, top, value)
        ELSE [h EXCEPT ![hole + 1] = value]

pqueue_push(h, x) == PushHeap(Append(h, x), Len(h), 0, x)

RECURSIVE AdjustHeapDown(_, _, _, _)
\* the while loop of __adjust_heap; yields the array and the hole reached
AdjustHeapDown(h, hole, second, len) ==
    IF len > 0 /\ second < (len - 1) \div 2
    THEN LET c == 2 * (second + 1)
             child == IF tspacket_less(h[c + 1], h[c]) THEN c - 1 ELSE c
         IN  AdjustHeapDown([h EXCEPT ![hole + 1] = h[child + 1]], child, child, len)
    ELSE [h |-> h, hole |-> hole, second |-> second]

AdjustHeap(h, len, value) ==
    LET d == AdjustHeapDown(h, 0, 0, len)
        e == IF len % 2 = 0 /\ d.second = (len - 2) \div 2
             THEN LET c == 2 * (d.second + 1)
                  IN  [h |-> [d.h EXCEPT ![d.hole + 1] = d.h[c]], hole |-> c - 1]
             ELSE [h |-> d.h, hole |-> d.hole]
    IN  PushHeap(e.h, e.hole, 0, value)

\* pqueue.top()
pqueue_top(h) == h[1]
\* pqueue.pop()
pqueue_pop(h) ==
    IF Len(h) <= 1 THEN << >>
    ELSE AdjustHeap(SubSeq(h, 1, Len(h) - 1), Len(h) - 1, h[Len(h)])

(***************************************************************************)
(* do_fast_switching, phase 2: input queues into the priority queue.       *)
(***************************************************************************)
RECURSIVE DrainQueue(_, _)
DrainQueue(q, h) ==
    IF q = << >> THEN h
    ELSE DrainQueue(Tail(q),
                    pqueue_push(h, [timestamp |-> Head(q).timestamp, switchpack |-> Head(q)]))

RECURSIVE DrainPorts(_, _)
DrainPorts(i, h) ==
    IF i < NUMPORTS THEN DrainPorts(i + 1, DrainQueue(inputqueue[i], h)) ELSE h

(***************************************************************************)
(* flit.h: get_port_from_flit.  The flit is read as a little-endian        *)
(* uint64_t; the two fields are taken from its bytes.                      *)
(***************************************************************************)
\* (*((uint64_t*)flit_buf) >> 16) & 0x1
is_multicast(flit_buf) == flit_buf[3] % 2
\* (*((uint64_t*)flit_buf) >> 48) & 0xFFFF
flit_low(flit_buf) == flit_buf[7] + (256 * flit_buf[8])
bswap16(x) == ((x % 256) * 256) + (x \div 256)
\* the table lookup yields "any uplink": rand() % NUMUPLINKS is evaluated
PicksUplink(flit_buf) ==
    /\ is_multicast(flit_buf) = 0
    /\ mac2port[bswap16(flit_low(flit_buf))] = NUMDOWNLINKS

\* randval stands for rand() % NUMUPLINKS
get_port_from_flit(flit_buf, randval) ==
    IF is_multicast(flit_buf) = 1 THEN BROADCAST_ADJUSTED
    ELSE LET sendport == mac2port[bswap16(flit_low(flit_buf))]
         IN  IF sendport = NUMDOWNLINKS THEN randval + NUMDOWNLINKS ELSE sendport


(***************************************************************************)
(* do_fast_switching, phase 3: routing of the packet on top of the queue.  *)
(***************************************************************************)
ADDUPLINK == IF NUMUPLINKS > 0 THEN 1 ELSE 0

\* Mutant: the loop runs over every port of the switch.
BroadcastTargets_allports(sender) ==
    {i \in 0 .. NUMPORTS - 1 : i # sender}

\* for (i = 0; i < NUMDOWNLINKS + ADDUPLINK; i++) if (i != tsp->sender)
BroadcastTargets(sender) ==
    {i \in 0 .. (NUMDOWNLINKS + ADDUPLINK) - 1 : i # sender}

\* tsp2 = malloc; memcpy(tsp2, tsp); tsp2->dat = malloc; memcpy(tsp2->dat, tsp->dat)
DeepCopy(tsp, addr) == [tsp EXCEPT !.id = addr, !.dat_id = addr + 1]

\* number of copies made before the loop reaches port i
CopiesBefore(targets, i) == Cardinality({j \in targets : j < i})

RouteEntry(tsp, kind, port, targets) ==
    [id |-> tsp.id, timestamp |-> tsp.timestamp, sender |-> tsp.sender,
     first |-> tsp.dat[1], kind |-> kind, send_to_port |-> port, targets |-> targets]

RouteBroadcast ==
    /\ pc = "route"
    /\ pqueue # << >>
    /\ LET tsp == pqueue_top(pqueue).switchpack
           targets == BroadcastTargets(tsp.sender)
       IN  /\ get_port_from_flit(tsp.dat[1], 0) = BROADCAST_ADJUSTED
           /\ pqueue' = pqueue_pop(pqueue)
           /\ outputqueue' =
                  [i \in Ports |->
                      IF i \in targets
                      THEN Append(outputqueue[i],
                                  DeepCopy(tsp, next_alloc + (2 * CopiesBefore(targets, i))))
                      ELSE outputqueue[i]]
           /\ next_alloc' = next_alloc + (2 * Cardinality(targets))
           /\ freed' = freed \o <<tsp.dat_id, tsp.id>>
           /\ routed' = Append(routed, RouteEntry(tsp, "broadcast", BROADCAST_ADJUSTED, targets))
    /\ UNCHANGED <<phase_log, dfs_calls>>
    /\ UNCHANGED <<sw_args, ports_constructed, NUMUPLINKS, pc, this_iter_cycles_start, current_input_buf,
                   input_in_progress, inputqueue, recv_port, wire_cur, wire_done,
                   flits_left>>
    /\ UNCHANGED <<codecVars, nicVars, rlVars>>

RouteUnicast ==
    /\ pc = "route"
    /\ pqueue # << >>
    /\ LET tsp == pqueue_top(pqueue).switchpack
       IN  /\ is_multicast(tsp.dat[1]) = 0
           /\ ~(PicksUplink(tsp.dat[1]) /\ NUMUPLINKS = 0)
           /\ \E randval \in (IF PicksUplink(tsp.dat[1]) THEN 0 .. NUMUPLINKS - 1 ELSE {0}) :
                 LET send_to_port == get_port_from_flit(tsp.dat[1], randval)
                 IN  /\ outputqueue' = [outputqueue EXCEPT ![send_to_port] = Append(@, tsp)]
                     /\ routed' = Append(routed,
                                     RouteEntry(tsp, "unicast", send_to_port, {send_to_port}))
           /\ pqueue' = pqueue_pop(pqueue)
    /\ UNCHANGED <<phase_log, dfs_calls>>
    /\ UNCHANGED <<sw_args, ports_constructed, NUMUPLINKS, pc, this_iter_cycles_start, current_input_buf,
                   input_in_progress, inputqueue, next_alloc, freed, recv_port,
                   wire_cur, wire_done, flits_left>>
    /\ UNCHANGED <<codecVars, nicVars, rlVars>>

\* rand() % NUMUPLINKS with NUMUPLINKS == 0 is undefined: the division traps,
\* or it yields some value and ports[send_to_port] is read past the array.
\* Either way no output queue receives the packet and the process is lost.
RouteModuloByZero ==
    /\ pc = "route"
    /\ pqueue # << >>
    /\ LET tsp == pqueue_top(pqueue).switchpack
       IN  /\ PicksUplink(tsp.dat[1])
           /\ NUMUPLINKS = 0
           /\ \E randval \in {0, 1} :
                 routed' = Append(routed,
                              RouteEntry(tsp, "unicast", randval + NUMDOWNLINKS, {}))
           /\ pqueue' = pqueue_pop(pqueue)
    /\ pc' = "crashed"
    /\ UNCHANGED <<phase_log, dfs_calls>>
    /\ UNCHANGED <<sw_args, ports_constructed, NUMUPLINKS, this_iter_cycles_start, current_input_buf,
                   input_in_progress, inputqueue, outputqueue, next_alloc, freed,
                   recv_port, wire_cur, wire_done, flits_left>>
    /\ UNCHANGED <<codecVars, nicVars, rlVars>>

\* while (!pqueue.empty()) ends
RouteDone ==
    /\ pc = "route"
    /\ pqueue = << >>
    /\ pc' = "emit"
    /\ UNCHANGED <<phase_log, dfs_calls>>
    /\ UNCHANGED <<sw_args, ports_constructed, NUMUPLINKS, this_iter_cycles_start, current_input_buf,
                   input_in_progress, inputqueue, outputqueue, pqueue, next_alloc,
                   freed, recv_port, routed, wire_cur, wire_done, flits_left>>
    /\ UNCHANGED <<codecVars, nicVars, rlVars>>

(***************************************************************************)
(* do_fast_switching, phase 4: BasePort::write_flits_to_output (baseport.h *)
(* is not part of the sources; modelled from the specification).  A packet  *)
(* is emitted from the head of the queue, one flit per usable token slot,  *)
(* never before its timestamp; a packet drained completely is destroyed.   *)
(***************************************************************************)
NextSlot(i, flitswritten) ==
    IF (i + 1) % throttle_numer = 0
    THEN flitswritten + (throttle_denom - throttle_numer) + 1
    ELSE flitswritten + 1

RECURSIVE EmitFlits(_, _, _)
EmitFlits(i, amtwritten, flitswritten) ==
    IF i < amtwritten /\ flitswritten < LINKLATENCY
    THEN EmitFlits(i + 1, amtwritten, NextSlot(i, flitswritten))
    ELSE [i |-> i, flitswritten |-> flitswritten]

RECURSIVE write_flits_to_output(_, _)
write_flits_to_output(q, flitswritten) ==
    IF q = << >> THEN [q |-> q, gone |-> << >>]
    ELSE LET pkt == Head(q)
             basetime == this_iter_cycles_start
             maxtime == this_iter_cycles_start + LINKLATENCY
         IN  IF pkt.timestamp < maxtime
             THEN LET diff == IF pkt.timestamp > basetime THEN pkt.timestamp - basetime ELSE 0
                      from == IF flitswritten > diff THEN flitswritten ELSE diff
                      r == EmitFlits(pkt.amtread, pkt.amtwritten, from)
                  IN  IF r.i = pkt.amtwritten
                      THEN LET rest == write_flits_to_output(Tail(q), r.flitswritten)
                           IN  [q |-> rest.q, gone |-> <<pkt.dat_id, pkt.id>> \o rest.gone]
                      ELSE [q |-> <<[pkt EXCEPT !.amtread = r.i]>> \o Tail(q), gone |-> << >>]
             ELSE [q |-> q, gone |-> << >>]

RECURSIVE GoneOfPorts(_)
GoneOfPorts(i) ==
    IF i < NUMPORTS
    THEN write_flits_to_output(outputqueue[i], 0).gone \o GoneOfPorts(i + 1)
    ELSE << >>

(***************************************************************************)
(* main(): the loop, and do_fast_switching's phases as its steps.          *)
(***************************************************************************)
MIN_ARGC == 4

\* The command lines of the switch: with and without the third argument, and
\* with a link latency that is or is not a multiple of 7.
SwitchArgProfiles ==
    [argc : {MIN_ARGC - 1, MIN_ARGC},
     linklatency : {LINKLATENCY, LINKLATENCY + 1, LINKLATENCY - 4}]

SwitchInit ==
    /\ NUMUPLINKS \in UplinkConfigs
    /\ sw_args \in SwitchArgProfiles
    /\ ports_constructed = FALSE
    /\ phase_log = << >>
    /\ dfs_calls = 0
    /\ pc = "start"
    /\ this_iter_cycles_start = 0
    /\ current_input_buf = [p \in Ports |-> ZeroBuf]
    /\ input_in_progress = [p \in Ports |-> NULL]
    /\ inputqueue = [p \in Ports |-> << >>]
    /\ outputqueue = [p \in Ports |-> << >>]
    /\ pqueue = << >>
    /\ next_alloc = 0
    /\ freed = << >>
    /\ recv_port = 0
    /\ routed = << >>
    /\ wire_cur = [p \in Ports |-> << >>]
    /\ wire_done = [p \in Ports |-> << >>]
    /\ flits_left = MaxFlits

\* Mutant: any link latency is accepted.
ValidLinkLatency_any(l) == TRUE

\* !((LINKLATENCY % 7) != 0)
ValidLinkLatency(l) == ~((l % 7) # 0)

\* main() up to its loop: the argument count, LINKLATENCY = atoi(argv[1]),
\* the check of LINKLATENCY, then the construction of the ports.  In the
\* loop LINKLATENCY is the accepted value of the command line.
SwitchStart ==
    /\ pc = "start"
    /\ IF sw_args.argc < MIN_ARGC
       THEN pc' = "exit1" /\ UNCHANGED ports_constructed
       ELSE IF ~ValidLinkLatency(sw_args.linklatency)
            THEN pc' = "exit1" /\ UNCHANGED ports_constructed
            ELSE pc' = "send" /\ ports_constructed' = TRUE
    /\ UNCHANGED <<sw_args, NUMUPLINKS, this_iter_cycles_start, current_input_buf,
                   input_in_progress, inputqueue, outputqueue, pqueue, next_alloc,
                   freed, recv_port, routed, wire_cur, wire_done, flits_left,
                   phase_log, dfs_calls>>
    /\ UNCHANGED <<codecVars, nicVars, rlVars>>

\* ports[port]->send() on every port
Send ==
    /\ pc = "send"
    /\ this_iter_cycles_start < MaxIters * LINKLATENCY
    /\ pc' = "recv"
    /\ recv_port' = 0
    /\ phase_log' = <<"send">>
    /\ UNCHANGED dfs_calls
    /\ UNCHANGED <<sw_args, ports_constructed, NUMUPLINKS, this_iter_cycles_start, current_input_buf,
                   input_in_progress, inputqueue, outputqueue, pqueue, next_alloc,
                   freed, routed, wire_cur, wire_done, flits_left>>
    /\ UNCHANGED <<codecVars, nicVars, rlVars>>

\* ports[port]->recv(): the port's next window arrives
Recv ==
    /\ pc = "recv"
    /\ recv_port < NUMPORTS
    /\ \E script \in WindowScripts :
          /\ Len(script) <= flits_left
          /\ flits_left' = flits_left - Len(script)
          /\ current_input_buf' =
                 [current_input_buf EXCEPT ![recv_port] = EncodeWindow(ZeroBuf, script)]
          /\ LET w == WireAfter([cur |-> wire_cur[recv_port], done |-> << >>], script)
             IN  /\ wire_cur' = [wire_cur EXCEPT ![recv_port] = w.cur]
                 /\ wire_done' = [wire_done EXCEPT ![recv_port] = w.done]
    /\ recv_port' = recv_port + 1
    /\ pc' = IF recv_port + 1 = NUMPORTS THEN "tick_pre" ELSE "recv"
    /\ phase_log' = Append(phase_log, "recv")
    /\ UNCHANGED dfs_calls
    /\ UNCHANGED <<sw_args, ports_constructed, NUMUPLINKS, this_iter_cycles_start, input_in_progress, inputqueue,
                   outputqueue, pqueue, next_alloc, freed, routed>>
    /\ UNCHANGED <<codecVars, nicVars, rlVars>>

\* ports[port]->tick_pre() on every port
TickPre ==
    /\ pc = "tick_pre"
    /\ pc' = "switching"
    /\ phase_log' = Append(phase_log, "tick_pre")
    /\ UNCHANGED dfs_calls
    /\ UNCHANGED <<sw_args, ports_constructed, NUMUPLINKS, this_iter_cycles_start, current_input_buf,
                   input_in_progress, inputqueue, outputqueue, pqueue, next_alloc,
                   freed, recv_port, routed, wire_cur, wire_done, flits_left>>
    /\ UNCHANGED <<codecVars, nicVars, rlVars>>

\* do_fast_switching: setup_send_buf and the reassembly loops
Reassemble ==
    /\ pc = "switching"
    /\ LET r == ReassemblePorts(0, [iip |-> input_in_progress, inq |-> inputqueue,
                                    alloc |-> next_alloc])
       IN  /\ input_in_progress' = r.iip
           /\ inputqueue' = r.inq
           /\ next_alloc' = r.alloc
    /\ routed' = << >>
    /\ pc' = "drain"
    /\ phase_log' = Append(phase_log, "do_fast_switching")
    /\ UNCHANGED dfs_calls
    /\ UNCHANGED <<sw_args, ports_constructed, NUMUPLINKS, this_iter_cycles_start, current_input_buf, outputqueue,
                   pqueue, freed, recv_port, wire_cur, wire_done, flits_left>>
    /\ UNCHANGED <<codecVars, nicVars, rlVars>>

\* do_fast_switching: every input queue is emptied into pqueue
Drain ==
    /\ pc = "drain"
    /\ pqueue' = DrainPorts(0, pqueue)
    /\ inputqueue' = [p \in Ports |-> << >>]
    /\ pc' = "route"
    /\ UNCHANGED <<phase_log, dfs_calls>>
    /\ UNCHANGED <<sw_args, ports_constructed, NUMUPLINKS, this_iter_cycles_start, current_input_buf,
                   input_in_progress, outputqueue, next_alloc, freed, recv_port,
                   routed, wire_cur, wire_done, flits_left>>
    /\ UNCHANGED <<codecVars, nicVars, rlVars>>

\* do_fast_switching: write_flits_to_output on every port; then it returns
Emit ==
    /\ pc = "emit"
    /\ outputqueue' = [p \in Ports |-> write_flits_to_output(outputqueue[p], 0).q]
    /\ freed' = freed \o GoneOfPorts(0)
    /\ pc' = "advance"
    /\ dfs_calls' = dfs_calls + 1
    /\ UNCHANGED phase_log
    /\ UNCHANGED <<sw_args, ports_constructed, NUMUPLINKS, this_iter_cycles_start, current_input_buf,
                   input_in_progress, inputqueue, pqueue, next_alloc, recv_port,
                   routed, wire_cur, wire_done, flits_left>>
    /\ UNCHANGED <<codecVars, nicVars, rlVars>>

\* Mutant: the simulated clock is advanced by one cycle only.
NextIterStart_onecycle(t) == t + 1

\* this_iter_cycles_start += LINKLATENCY
NextIterStart(t) == t + LINKLATENCY

\* this_iter_cycles_start += LINKLATENCY
Advance ==
    /\ pc = "advance"
    /\ this_iter_cycles_start' = NextIterStart(this_iter_cycles_start)
    /\ pc' = "tick"
    /\ phase_log' = Append(phase_log, "advance")
    /\ UNCHANGED dfs_calls
    /\ UNCHANGED <<sw_args, ports_constructed, NUMUPLINKS, current_input_buf, input_in_progress, inputqueue,
                   outputqueue, pqueue, next_alloc, freed, recv_port, routed,
                   wire_cur, wire_done, flits_left>>
    /\ UNCHANGED <<codecVars, nicVars, rlVars>>

\* ports[port]->tick() on every port
Tick ==
    /\ pc = "tick"
    /\ pc' = "send"
    /\ phase_log' = Append(phase_log, "tick")
    /\ UNCHANGED dfs_calls
    /\ UNCHANGED <<sw_args, ports_constructed, NUMUPLINKS, this_iter_cycles_start, current_input_buf,
                   input_in_progress, inputqueue, outputqueue, pqueue, next_alloc,
                   freed, recv_port, routed, wire_cur, wire_done, flits_left>>
    /\ UNCHANGED <<codecVars, nicVars, rlVars>>

SwitchNext ==
    \/ SwitchStart
    \/ Send \/ Recv \/ TickPre
    \/ Reassemble \/ Drain
    \/ RouteBroadcast \/ RouteUnicast \/ RouteModuloByZero \/ RouteDone
    \/ Emit \/ Advance \/ Tick


(***************************************************************************)
(* simplenic.cc: the NIC endpoint.                                         *)
(***************************************************************************)
PCIE_WIDTH_BITS == 512
VAL_BITS == 3
FLIT_WIDTH_BITS == 256
BUF_WIDTH_BITS == 64
NIC_TOKENS_PER_BIGTOKEN == PCIE_WIDTH_BITS \div (FLIT_WIDTH_BITS + VAL_BITS)
\* +linklatencyN=: the constructor asserts it is > 0 (bound of the model).
NicLinkLatency == 2
SIMLATENCY_BT == NicLinkLatency \div NIC_TOKENS_PER_BIGTOKEN
BUF_BYTES == SIMLATENCY_BT * BUF_WIDTH_BITS
MAX_BANDWIDTH == 800
\* int netbw = MAX_BANDWIDTH, netburst = 8;  assert(netburst < 256);
DefaultNetburst == 8
NETBURST_LIMIT == 256
\* History bound: the rounds of tick() that are counted and recorded.
MaxRoundsTracked == 3

\* The buffers: two shared regions per direction, or, in loopback, two
\* malloc'ed buffers that serve both directions.
NicBuffers == {<<"nts", 0>>, <<"nts", 1>>, <<"stn", 0>>, <<"stn", 1>>,
               <<"loop", 0>>, <<"loop", 1>>}
pcis_read_bufs(j) == IF loopback THEN <<"loop", j>> ELSE <<"nts", j>>
pcis_write_bufs(j) == IF loopback THEN <<"loop", j>> ELSE <<"stn", j>>

Min(a, b) == IF a < b THEN a ELSE b

\* What a DMA transfer of `requested` bytes may return.
DmaReturns(requested) == {requested, 0}

\* Entries of nic_log: what was done, on which buffer, and for a DMA transfer
\* the byte count asked for and the byte count returned.
NoBuf == <<"none", 0>>
Ev(e) == [ev |-> e, buf |-> NoBuf, req |-> 0, got |-> 0]
BufEv(e, b) == [ev |-> e, buf |-> b, req |-> 0, got |-> 0]
DmaEv(e, b, requested, returned) == [ev |-> e, buf |-> b, req |-> requested, got |-> returned]

\* The command lines the endpoint is constructed with: a complete one, with
\* and without loopback, and the same with one thing wrong at a time.
\* mac: "ok", "short" (fewer than six octets), "junk" (six octets and a
\* trailing character).
GoodArgs == [mac |-> "ok", linklatency |-> NicLinkLatency, netbw |-> MAX_BANDWIDTH,
             netburst |-> DefaultNetburst, shmemportname |-> TRUE, loopback |-> FALSE]
NicArgProfiles ==
    UNION { { a,
              [a EXCEPT !.mac = "short"],
              [a EXCEPT !.mac = "junk"],
              [a EXCEPT !.linklatency = 0],
              [a EXCEPT !.netbw = MAX_BANDWIDTH + 1],
              [a EXCEPT !.netburst = NETBURST_LIMIT],
              [a EXCEPT !.shmemportname = FALSE] } :
            a \in {GoodArgs, [GoodArgs EXCEPT !.loopback = TRUE]} }

NicInit ==
    /\ nic_args \in NicArgProfiles
    /\ loopback = FALSE
    /\ nic_pc = "start"
    /\ currentround = 0
    \* shared regions are created zero-filled
    /\ sentinel = [b \in NicBuffers |-> 0]
    /\ outgoing_count \in 0 .. SIMLATENCY_BT
    /\ incoming_count \in 0 .. SIMLATENCY_BT
    /\ tokens_this_round = -1
    /\ dma_bytes = 0
    /\ round_at_read = 0
    /\ nic_log = << >>
    /\ inv_rounds = 0
    /\ round_hist = << >>

\* assert(LINKLATENCY > 0); assert(netburst < 256); assert(netbw <= MAX_BANDWIDTH);
\* and, when not in loopback, assert(shmemportname != NULL)
AssertsHold(a) ==
    /\ a.linklatency > 0
    /\ a.netburst < NETBURST_LIMIT
    /\ a.netbw <= MAX_BANDWIDTH
    /\ (~a.loopback => a.shmemportname)

\* sscanf(macstring, "%x:%x:%x:%x:%x:%x%c", ..., trailingjunk): fewer than six
\* octets only print a message.  A seventh conversion stores a character
\* through the pointer trailingjunk, which is never initialised: the store may
\* end the process or go unnoticed.
MacParseOutcomes(mac) == IF mac = "junk" THEN {"continues", "killed"} ELSE {"continues"}

\* simplenic_t::simplenic_t
NicConstruct ==
    /\ nic_pc = "start"
    /\ \E outcome \in MacParseOutcomes(nic_args.mac) :
          IF outcome = "killed" \/ ~AssertsHold(nic_args)
          THEN /\ nic_pc' = "aborted"
               /\ UNCHANGED <<loopback, sentinel>>
          ELSE /\ nic_pc' = "constructed"
               /\ loopback' = nic_args.loopback
               \* malloc'ed loopback buffers hold anything
               /\ \E g0, g1 \in {0, 1} :
                     sentinel' = IF nic_args.loopback
                                 THEN [sentinel EXCEPT ![<<"loop", 0>>] = g0,
                                                       ![<<"loop", 1>>] = g1]
                                 ELSE sentinel
    /\ UNCHANGED <<nic_args, currentround, outgoing_count, incoming_count,
                   tokens_this_round, dma_bytes, round_at_read, nic_log,
                   inv_rounds, round_hist>>
    /\ UNCHANGED <<codecVars, switchVars, rlVars>>

\* Mutant: the count of big-tokens waiting at boot is not looked at.
BootStateOk_capacity_only(output_tokens_available, input_token_capacity) ==
    input_token_capacity = SIMLATENCY_BT

\* !((input_token_capacity != SIMLATENCY_BT) ||
\*   (output_tokens_available != (TOKENS_PER_BIGTOKEN == 1)))
BootStateOk(output_tokens_available, input_token_capacity) ==
    ~ \/ input_token_capacity # SIMLATENCY_BT
      \/ output_tokens_available # (IF NIC_TOKENS_PER_BIGTOKEN = 1 THEN 1 ELSE 0)

\* Mutant: the returned byte count is not looked at.
ShortTransfer_ignored(returned, tokens) == FALSE

\* if (token_bytes != tokens * BUF_WIDTH_BITS) exit(1)
ShortTransfer(returned, tokens) == returned # tokens * BUF_WIDTH_BITS

\* init(): the register writes, the two reads and the boot check
NicInitCheck ==
    /\ nic_pc = "constructed"
    /\ LET output_tokens_available == outgoing_count
           input_token_capacity == SIMLATENCY_BT - incoming_count
       IN  nic_pc' = IF BootStateOk(output_tokens_available, input_token_capacity)
                     THEN "init_push" ELSE "fatal"
    /\ nic_log' = <<Ev("write_macaddr_upper"), Ev("write_macaddr_lower"),
                    Ev("write_rlimit_settings"),
                    Ev("read_outgoing_count"), Ev("read_incoming_count")>>
    /\ UNCHANGED <<nic_args, loopback, currentround, sentinel, outgoing_count,
                   incoming_count, tokens_this_round, dma_bytes, round_at_read,
                   inv_rounds, round_hist>>
    /\ UNCHANGED <<codecVars, switchVars, rlVars>>

\* init(): push(dma_addr, pcis_write_bufs[1], BUF_WIDTH_BITS * input_token_capacity)
\* and the check of what it returned
NicInitPush ==
    /\ nic_pc = "init_push"
    /\ LET input_token_capacity == SIMLATENCY_BT - incoming_count
       IN  \E got \in DmaReturns(BUF_WIDTH_BITS * input_token_capacity) :
              /\ dma_bytes' = got
              /\ incoming_count' = got \div BUF_WIDTH_BITS
              /\ nic_pc' = IF ShortTransfer(got, input_token_capacity)
                           THEN "fatal" ELSE "idle"
              /\ nic_log' = Append(nic_log,
                                   DmaEv("push", pcis_write_bufs(1),
                                         BUF_WIDTH_BITS * input_token_capacity, got))
    /\ UNCHANGED <<nic_args, loopback, currentround, sentinel, outgoing_count,
                   tokens_this_round, round_at_read, inv_rounds, round_hist>>
    /\ UNCHANGED <<codecVars, switchVars, rlVars>>

\* Mutant: a partial window is enough to go on.
FullWindow_partial(tokens) == tokens > 0

\* if (tokens_this_round != SIMLATENCY_BT) return;
FullWindow(tokens) == tokens = SIMLATENCY_BT

\* tick(): top of the while loop, the two register reads.  Coming from
\* "idle" the driver has called tick() again; coming from "loop" the same
\* call goes round its loop.
NicTickRead ==
    /\ nic_pc \in {"idle", "loop"}
    /\ tokens_this_round' = Min(outgoing_count, SIMLATENCY_BT - incoming_count)
    /\ round_at_read' = currentround
    /\ nic_log' = << >>
    /\ inv_rounds' = IF nic_pc = "idle" THEN 0 ELSE inv_rounds
    /\ nic_pc' = "tick_check"
    /\ UNCHANGED <<nic_args, loopback, currentround, sentinel, outgoing_count,
                   incoming_count, dma_bytes, round_hist>>
    /\ UNCHANGED <<codecVars, switchVars, rlVars>>

\* tick(): no full window, return
NicTickReturn ==
    /\ nic_pc = "tick_check"
    /\ ~FullWindow(tokens_this_round)
    /\ nic_pc' = "idle"
    /\ UNCHANGED <<nic_args, loopback, currentround, sentinel, outgoing_count,
                   incoming_count, tokens_this_round, dma_bytes, round_at_read,
                   nic_log, inv_rounds, round_hist>>
    /\ UNCHANGED <<codecVars, switchVars, rlVars>>

\* tick(): pull(dma_addr, pcis_read_bufs[currentround], BUF_WIDTH_BITS * tokens_this_round)
NicPull ==
    /\ nic_pc = "tick_check"
    /\ FullWindow(tokens_this_round)
    /\ \E got \in DmaReturns(BUF_WIDTH_BITS * tokens_this_round) :
          /\ dma_bytes' = got
          /\ outgoing_count' = outgoing_count - (got \div BUF_WIDTH_BITS)
          /\ nic_log' = Append(nic_log,
                               DmaEv("pull", pcis_read_bufs(currentround),
                                     BUF_WIDTH_BITS * tokens_this_round, got))
    /\ nic_pc' = "publish"
    /\ UNCHANGED <<nic_args, loopback, currentround, sentinel, incoming_count,
                   tokens_this_round, round_at_read, inv_rounds, round_hist>>
    /\ UNCHANGED <<codecVars, switchVars, rlVars>>

\* tick(): pcis_read_bufs[currentround][BUF_BYTES] = 1
NicPublish ==
    /\ nic_pc = "publish"
    /\ sentinel' = [sentinel EXCEPT ![pcis_read_bufs(currentround)] = 1]
    /\ nic_log' = Append(nic_log, BufEv("set_sentinel", pcis_read_bufs(currentround)))
    /\ nic_pc' = "check_pull"
    /\ UNCHANGED <<nic_args, loopback, currentround, outgoing_count, incoming_count,
                   tokens_this_round, dma_bytes, round_at_read, inv_rounds, round_hist>>
    /\ UNCHANGED <<codecVars, switchVars, rlVars>>

\* tick(): if (token_bytes_obtained_from_fpga != tokens_this_round * BUF_WIDTH_BITS) exit(1)
NicCheckPull ==
    /\ nic_pc = "check_pull"
    /\ nic_pc' = IF ShortTransfer(dma_bytes, tokens_this_round) THEN "fatal" ELSE "poll"
    /\ UNCHANGED <<nic_args, loopback, currentround, sentinel, outgoing_count,
                   incoming_count, tokens_this_round, dma_bytes, round_at_read,
                   nic_log, inv_rounds, round_hist>>
    /\ UNCHANGED <<codecVars, switchVars, rlVars>>

\* Mutant: the loop is left at once.
PollExit_nowait(polled) == TRUE

\* Mutant: the loop spins on the wrong value.
PollExit_inverted(polled) == polled = 0

\* while (*polladdr == 0) { ; }
PollExit(polled) == polled # 0

\* tick(): if (!loopback) the busy-poll on pcis_write_bufs[currentround][BUF_BYTES]
NicPoll ==
    /\ nic_pc = "poll"
    /\ loopback \/ PollExit(sentinel[pcis_write_bufs(currentround)])
    /\ nic_log' = IF loopback THEN nic_log
                  ELSE Append(nic_log, BufEv("saw_sentinel", pcis_write_bufs(currentround)))
    /\ nic_pc' = "push"
    /\ UNCHANGED <<nic_args, loopback, currentround, sentinel, outgoing_count,
                   incoming_count, tokens_this_round, dma_bytes, round_at_read,
                   inv_rounds, round_hist>>
    /\ UNCHANGED <<codecVars, switchVars, rlVars>>

\* tick(): push(dma_addr, pcis_write_bufs[currentround], BUF_WIDTH_BITS * tokens_this_round)
NicPush ==
    /\ nic_pc = "push"
    /\ \E got \in DmaReturns(BUF_WIDTH_BITS * tokens_this_round) :
          /\ dma_bytes' = got
          /\ incoming_count' = Min(SIMLATENCY_BT, incoming_count + (got \div BUF_WIDTH_BITS))
          /\ nic_log' = Append(nic_log,
                               DmaEv("push", pcis_write_bufs(currentround),
                                     BUF_WIDTH_BITS * tokens_this_round, got))
    /\ nic_pc' = "clear"
    /\ UNCHANGED <<nic_args, loopback, currentround, sentinel, outgoing_count,
                   tokens_this_round, round_at_read, inv_rounds, round_hist>>
    /\ UNCHANGED <<codecVars, switchVars, rlVars>>

\* tick(): pcis_write_bufs[currentround][BUF_BYTES] = 0
NicClear ==
    /\ nic_pc = "clear"
    /\ sentinel' = [sentinel EXCEPT ![pcis_write_bufs(currentround)] = 0]
    /\ nic_log' = Append(nic_log, BufEv("clear_sentinel", pcis_write_bufs(currentround)))
    /\ nic_pc' = "check_push"
    /\ UNCHANGED <<nic_args, loopback, currentround, outgoing_count, incoming_count,
                   tokens_this_round, dma_bytes, round_at_read, inv_rounds, round_hist>>
    /\ UNCHANGED <<codecVars, switchVars, rlVars>>

\* Mutant: the round index is not flipped.
NextRound_stuck(r) == r

\* Mutant: the round index is incremented without the modulo.
NextRound_nomod(r) == r + 1

\* currentround = (currentround + 1) % 2
NextRound(r) == (r + 1) % 2

\* tick(): the check of the push, then currentround = (currentround + 1) % 2
NicCheckPushAndFlip ==
    /\ nic_pc = "check_push"
    /\ IF ShortTransfer(dma_bytes, tokens_this_round)
       THEN /\ nic_pc' = "fatal"
            /\ UNCHANGED <<currentround, nic_log, inv_rounds, round_hist>>
       ELSE /\ nic_pc' = "loop"
            /\ currentround' = NextRound(currentround)
            /\ nic_log' = Append(nic_log, Ev("flip"))
            /\ inv_rounds' = Min(MaxRoundsTracked, inv_rounds + 1)
            /\ round_hist' = IF Len(round_hist) < MaxRoundsTracked
                             THEN Append(round_hist, currentround) ELSE round_hist
    /\ UNCHANGED <<nic_args, loopback, sentinel, outgoing_count, incoming_count,
                   tokens_this_round, dma_bytes, round_at_read>>
    /\ UNCHANGED <<codecVars, switchVars, rlVars>>

NicRunning == nic_pc \notin {"start", "aborted", "constructed", "init_push", "fatal"}

\* The FPGA simulates on: it produces a big-token for the host to pull ...
FpgaProduce ==
    /\ NicRunning
    /\ outgoing_count < SIMLATENCY_BT
    /\ outgoing_count' = outgoing_count + 1
    /\ UNCHANGED <<nic_args, loopback, nic_pc, currentround, sentinel, incoming_count,
                   tokens_this_round, dma_bytes, round_at_read, nic_log,
                   inv_rounds, round_hist>>
    /\ UNCHANGED <<codecVars, switchVars, rlVars>>

\* ... and consumes one the host pushed.
FpgaConsume ==
    /\ NicRunning
    /\ incoming_count > 0
    /\ incoming_count' = incoming_count - 1
    /\ UNCHANGED <<nic_args, loopback, nic_pc, currentround, sentinel, outgoing_count,
                   tokens_this_round, dma_bytes, round_at_read, nic_log,
                   inv_rounds, round_hist>>
    /\ UNCHANGED <<codecVars, switchVars, rlVars>>

\* The peer process, as reader of a node-to-switch window: it finds the
\* sentinel 1, consumes the window and clears the sentinel.
PeerConsume ==
    /\ ~loopback
    /\ nic_pc \notin {"start", "aborted", "fatal"}
    /\ \E j \in {0, 1} :
          /\ sentinel[<<"nts", j>>] = 1
          /\ sentinel' = [sentinel EXCEPT ![<<"nts", j>>] = 0]
    /\ UNCHANGED <<nic_args, loopback, nic_pc, currentround, outgoing_count,
                   incoming_count, tokens_this_round, dma_bytes, round_at_read,
                   nic_log, inv_rounds, round_hist>>
    /\ UNCHANGED <<codecVars, switchVars, rlVars>>

\* The peer process, as writer of a switch-to-node window: it fills the
\* window, then sets the sentinel.
PeerProduce ==
    /\ ~loopback
    /\ nic_pc \notin {"start", "aborted", "fatal"}
    /\ \E j \in {0, 1} :
          /\ sentinel[<<"stn", j>>] = 0
          /\ sentinel' = [sentinel EXCEPT ![<<"stn", j>>] = 1]
    /\ UNCHANGED <<nic_args, loopback, nic_pc, currentround, outgoing_count,
                   incoming_count, tokens_this_round, dma_bytes, round_at_read,
                   nic_log, inv_rounds, round_hist>>
    /\ UNCHANGED <<codecVars, switchVars, rlVars>>

\* The statements of the endpoint itself.
NicProgram ==
    \/ NicConstruct
    \/ NicInitCheck \/ NicInitPush
    \/ NicTickRead \/ NicTickReturn
    \/ NicPull \/ NicPublish \/ NicCheckPull \/ NicPoll
    \/ NicPush \/ NicClear \/ NicCheckPushAndFlip

NicNext ==
    \/ NicConstruct
    \/ NicInitCheck \/ NicInitPush
    \/ NicTickRead \/ NicTickReturn
    \/ NicPull \/ NicPublish \/ NicCheckPull \/ NicPoll
    \/ NicPush \/ NicClear \/ NicCheckPushAndFlip
    \/ FpgaProduce \/ FpgaConsume
    \/ PeerConsume \/ PeerProduce

(***************************************************************************)
(* The rate limiter's set-up: simplify_frac in the endpoint's constructor  *)
(* and in the switch's main(), and the rlimit_settings register.           *)
(***************************************************************************)
MAX_BANDWIDTH_BITS == 10

\* Values of +netbwN and +netburstN: every bandwidth up to the first one
\* turned down, zero and negative ones, and bursts around the two ends of
\* the range the constructor accepts.
NetbwInputs == {-MAX_BANDWIDTH, -1} \cup (0 .. MAX_BANDWIDTH + 1)
NetburstInputs == {-1, 0, 1, DefaultNetburst, NETBURST_LIMIT - 1, NETBURST_LIMIT}
\* Values of the switch's BANDWIDTH argument.
BandwidthInputs == 1 .. MAX_BW

NoFrac == [nn |-> 0, dd |-> 0]

RlInit ==
    /\ rl_pc = "start"
    /\ thr_pc = "start"
    /\ \/ /\ netbw \in NetbwInputs
          /\ netburst \in NetburstInputs
          /\ argv_bandwidth = bandwidth
       \/ /\ netbw = MAX_BANDWIDTH
          /\ netburst = DefaultNetburst
          /\ argv_bandwidth \in BandwidthInputs
    /\ rlimit_inc = 0
    /\ rlimit_period = 0
    /\ rlimit_size = 0
    /\ rlimit_settings = [hi |-> 0, lo |-> 0]
    /\ throttle = NoFrac

\* A 32-bit int seen as uint32_t, kept as its two 16-bit halves, and the
\* operators << and | on it.  The shift of a negative int is taken as the
\* two's-complement shift the compilers of this code produce.
ToU32(x) == [hi |-> (x \div Pow2(16)) % Pow2(16), lo |-> x % Pow2(16)]
Shl32(x, k) == ToU32(x * Pow2(k))
RECURSIVE BitOr(_, _)
BitOr(a, b) ==
    IF a = 0 THEN b
    ELSE IF b = 0 THEN a
    ELSE (IF a % 2 = 1 \/ b % 2 = 1 THEN 1 ELSE 0) + 2 * BitOr(a \div 2, b \div 2)
Or32(u, v) == [hi |-> BitOr(u.hi, v.hi), lo |-> BitOr(u.lo, v.lo)]

\* (rlimit_inc << (2*MAX_BANDWIDTH_BITS)) | ((rlimit_period - 1) << MAX_BANDWIDTH_BITS)
\*     | rlimit_size
RlimitSettings(inc, period, size) ==
    Or32(Or32(Shl32(inc, 2 * MAX_BANDWIDTH_BITS),
              Shl32(period - 1, MAX_BANDWIDTH_BITS)),
         ToU32(size))

\* The constructor: the two asserts, simplify_frac, rlimit_size = netburst
RlConstruct ==
    /\ rl_pc = "start"
    /\ IF netburst < NETBURST_LIMIT /\ netbw <= MAX_BANDWIDTH
       THEN /\ rlimit_inc' = simplify_frac(netbw, MAX_BANDWIDTH).nn
            /\ rlimit_period' = simplify_frac(netbw, MAX_BANDWIDTH).dd
            /\ rlimit_size' = netburst
            /\ rl_pc' = "constructed"
       ELSE /\ rl_pc' = "aborted"
            /\ UNCHANGED <<rlimit_inc, rlimit_period, rlimit_size>>
    /\ UNCHANGED <<netbw, netburst, rlimit_settings, thr_pc, argv_bandwidth, throttle>>
    /\ UNCHANGED <<codecVars, switchVars, nicVars>>

\* init(): write(mmio_addrs->rlimit_settings, ...)
RlInitWrite ==
    /\ rl_pc = "constructed"
    /\ rlimit_settings' = RlimitSettings(rlimit_inc, rlimit_period, rlimit_size)
    /\ rl_pc' = "written"
    /\ UNCHANGED <<netbw, netburst, rlimit_inc, rlimit_period, rlimit_size,
                   thr_pc, argv_bandwidth, throttle>>
    /\ UNCHANGED <<codecVars, switchVars, nicVars>>

\* main() of the switch:
\* simplify_frac(bandwidth, MAX_BW, &throttle_numer, &throttle_denom)
RlSwitchThrottle ==
    /\ thr_pc = "start"
    /\ throttle' = simplify_frac(argv_bandwidth, MAX_BW)
    /\ thr_pc' = "set"
    /\ UNCHANGED <<rl_pc, netbw, netburst, rlimit_inc, rlimit_period, rlimit_size,
                   rlimit_settings, argv_bandwidth>>
    /\ UNCHANGED <<codecVars, switchVars, nicVars>>

RlNext == RlConstruct \/ RlInitWrite \/ RlSwitchThrottle

(***************************************************************************)
(* The specifications.  Each runs one component; the variables of the      *)
(* other components stay at rest.                                          *)
(***************************************************************************)
CodecAtRest ==
    /\ cbuf = ZeroBuf
    /\ ctoken = 0
    /\ cflit = <<0, 0, 0, 0, 0, 0, 0, 0>>
    /\ clast = FALSE
    /\ clog = << >>
    /\ cret = "not_called"

SwitchAtRest ==
    /\ NUMUPLINKS = 0
    /\ pc = "off"
    /\ this_iter_cycles_start = 0
    /\ current_input_buf = << >>
    /\ input_in_progress = << >>
    /\ inputqueue = << >>
    /\ outputqueue = << >>
    /\ pqueue = << >>
    /\ next_alloc = 0
    /\ freed = << >>
    /\ recv_port = 0
    /\ routed = << >>
    /\ wire_cur = << >>
    /\ wire_done = << >>
    /\ flits_left = 0
    /\ sw_args = [argc |-> MIN_ARGC, linklatency |-> LINKLATENCY]
    /\ ports_constructed = FALSE
    /\ phase_log = << >>
    /\ dfs_calls = 0

NicAtRest ==
    /\ loopback = FALSE
    /\ nic_pc = "off"
    /\ currentround = 0
    /\ sentinel = << >>
    /\ outgoing_count = 0
    /\ incoming_count = 0
    /\ tokens_this_round = -1
    /\ dma_bytes = 0
    /\ round_at_read = 0
    /\ nic_log = << >>
    /\ nic_args = GoodArgs
    /\ inv_rounds = 0
    /\ round_hist = << >>

RlAtRest ==
    /\ rl_pc = "off"
    /\ thr_pc = "off"
    /\ netbw = MAX_BANDWIDTH
    /\ netburst = DefaultNetburst
    /\ argv_bandwidth = bandwidth
    /\ rlimit_inc = 0
    /\ rlimit_period = 0
    /\ rlimit_size = 0
    /\ rlimit_settings = [hi |-> 0, lo |-> 0]
    /\ throttle = NoFrac

InitCodec == CodecInit /\ SwitchAtRest /\ NicAtRest /\ RlAtRest
SpecCodec == InitCodec /\ [][CodecNext]_vars

InitSwitch == SwitchInit /\ CodecAtRest /\ NicAtRest /\ RlAtRest
SpecSwitch == InitSwitch /\ [][SwitchNext]_vars

InitNic == NicInit /\ CodecAtRest /\ SwitchAtRest /\ RlAtRest
SpecNic == InitNic /\ [][NicNext]_vars

InitRlimit == RlInit /\ CodecAtRest /\ SwitchAtRest /\ NicAtRest
SpecRlimit == InitRlimit /\ [][RlNext]_vars

\* The endpoint is one thread of straight-line code that keeps running: a
\* statement that can be executed is executed.  Nothing is assumed of the
\* FPGA or of the peer.
SpecNicLive == InitNic /\ [][NicNext]_vars /\ WF_vars(NicProgram)

\* The running endpoint with a fair peer: a window the peer can publish is
\* published.  Nothing is assumed of the FPGA.
SpecNicPeerFair ==
    InitNic /\ [][NicNext]_vars /\ WF_vars(NicProgram) /\ WF_vars(PeerProduce)


(***************************************************************************)
(* Claims about the switch (SpecSwitch).                                   *)
(***************************************************************************)
Uplinks == NUMDOWNLINKS .. NUMPORTS - 1
DatOf(q) == [i \in 1 .. Len(q) |-> q[i].dat]

\* C1: lossless reassembly.  After the reassembly phase, the packets pushed
\* onto a port's inputqueue are exactly the packets the sender completed in
\* this window: each holds the valid flits sent on that port since the
\* previous last-flagged flit, in ingress order (also when they span
\* windows), amtwritten is their count, and no invalid flit is appended.
C1_LosslessReassembly ==
    pc = "drain" =>
        \A p \in Ports :
            /\ DatOf(inputqueue[p]) = wire_done[p]
            /\ \A i \in 1 .. Len(inputqueue[p]) :
                  inputqueue[p][i].amtwritten = Len(wire_done[p][i])

\* C2: timestamp monotonicity at egress.  In every reachable state the
\* packets of every port's outputqueue are in non-decreasing timestamp order.
C2_EgressTimestampMonotone ==
    pc # "off" =>
        \A p \in Ports :
            \A i, j \in 1 .. Len(outputqueue[p]) :
                i < j => outputqueue[p][i].timestamp <= outputqueue[p][j].timestamp

\* C3: within one invocation of do_fast_switching, packets are routed in
\* non-decreasing timestamp order, whatever ports they arrived on.
C3_RoutedInTimestampOrder ==
    \A i, j \in 1 .. Len(routed) :
        i < j => routed[i].timestamp <= routed[j].timestamp

\* C3 witness: two packets were routed in one invocation, the first from a
\* higher port than the second and with a strictly smaller timestamp.
C3_Witness ==
    /\ Len(routed) >= 2
    /\ \E i \in 1 .. Len(routed) - 1 :
          /\ routed[i].sender > routed[i + 1].sender
          /\ routed[i].timestamp < routed[i + 1].timestamp

SameContent(a, b) ==
    /\ a.timestamp = b.timestamp
    /\ a.sender = b.sender
    /\ a.amtwritten = b.amtwritten
    /\ a.dat = b.dat

C5_BroadcastNonStorm ==
    pc # "off" =>
        \A i \in Uplinks :
            \A k \in 1 .. Len(outputqueue[i]) :
                ~(/\ outputqueue[i][k].dat[1][3] % 2 = 1
                  /\ outputqueue[i][k].sender \in Uplinks)

\* C6: unicast routing.  A packet whose first flit has the multicast bit
\* clear is pushed onto exactly one outputqueue; the port is a valid port
\* (< NUMPORTS); it is mac2port[dest_mac_low] when that differs from
\* NUMDOWNLINKS and otherwise one of the uplinks.
C6_UnicastRouting ==
    \A k \in 1 .. Len(routed) :
        routed[k].first[3] % 2 = 0 =>
            LET r == routed[k]
                mac == (r.first[7] * 256) + r.first[8]
            IN  /\ r.send_to_port < NUMPORTS
                /\ r.targets = {r.send_to_port}
                /\ IF mac2port[mac] # NUMDOWNLINKS
                   THEN r.send_to_port = mac2port[mac]
                   ELSE r.send_to_port \in Uplinks

(***************************************************************************)
(* Ownership.                                                              *)
(***************************************************************************)
RECURSIVE Flatten(_, _)
\* the packets of queues f[i], f[i+1], ... as one sequence
Flatten(f, i) == IF i < NUMPORTS THEN f[i] \o Flatten(f, i + 1) ELSE << >>

HeldPackets ==
    Flatten([p \in Ports |-> IF input_in_progress[p] = NULL THEN << >>
                             ELSE <<input_in_progress[p]>>], 0)
    \o Flatten(inputqueue, 0)
    \o [i \in 1 .. Len(pqueue) |-> pqueue[i].switchpack]
    \o Flatten(outputqueue, 0)

\* the addresses the held packets refer to: each struct and each dat buffer
HeldAddresses ==
    [i \in 1 .. 2 * Len(HeldPackets) |->
        IF i <= Len(HeldPackets) THEN HeldPackets[i].id
        ELSE HeldPackets[i - Len(HeldPackets)].dat_id]

NoDuplicates(q) == \A i, j \in 1 .. Len(q) : i # j => q[i] # q[j]
Range(q) == {q[i] : i \in 1 .. Len(q)}

\* C7: single ownership and conservation.  In every reachable state, every live
\* packet (allocated, not freed) is referenced from exactly one place among
\* input_in_progress, the inputqueues, the priority queue and the
\* outputqueues; no two packets share a dat buffer; nothing is freed twice;
\* and when the routing phase has finished every inputqueue and the priority
\* queue are empty: each unicast packet routed is in one outputqueue and each
\* broadcast original is freed.
C7_SingleOwnership ==
    pc # "off" =>
        /\ NoDuplicates(HeldAddresses)
        /\ NoDuplicates(freed)
        /\ Range(HeldAddresses) \cap Range(freed) = {}
        /\ Range(HeldAddresses) \cup Range(freed) = 0 .. next_alloc - 1
        /\ pc = "emit" =>
              /\ pqueue = << >>
              /\ \A p \in Ports : inputqueue[p] = << >>
              /\ \A k \in 1 .. Len(routed) :
                    IF routed[k].kind = "broadcast"
                    THEN routed[k].id \in Range(freed)
                    ELSE \E p \in Ports : \E n \in 1 .. Len(outputqueue[p]) :
                            outputqueue[p][n].id = routed[k].id

(***************************************************************************)
(* Claims about the NIC endpoint (SpecNic).                                *)
(***************************************************************************)
\* C10: a tick with no full window is a no-op.  Once tick() has read the
\* registers and min(outgoing_count, SIMLATENCY_BT - incoming_count) is not
\* SIMLATENCY_BT, it returns (no fatal error) and, since that read, has done
\* no pull, no push, no sentinel write, and has left currentround unchanged.
C10_NoFullWindowNoOp ==
    (tokens_this_round >= 0 /\ tokens_this_round # SIMLATENCY_BT) =>
        /\ nic_pc \in {"tick_check", "idle"}
        /\ nic_log = << >>
        /\ currentround = round_at_read

\* C10 witness: tick() has returned on a partial window after an earlier
\* round had been completed.
C10_Witness ==
    /\ nic_pc = "idle"
    /\ tokens_this_round >= 1
    /\ tokens_this_round < SIMLATENCY_BT
    /\ currentround = 1

\* the bytes of one full window, as the DMA calls of a round ask for them
WindowBytes == BUF_WIDTH_BITS * SIMLATENCY_BT

\* C11: NIC round ordering.  A round of tick() that completes on index r has
\* done, in this order and nothing else: pull into pcis_read_bufs[r], set
\* that buffer's sentinel, (not in loopback) see the sentinel of
\* pcis_write_bufs[r] set, push pcis_write_bufs[r], clear its sentinel, flip
\* currentround.  Not in loopback, the push of pcis_write_bufs[r] is made
\* with its sentinel at 1.
C11_RoundOrdering ==
    /\ nic_pc = "loop" =>
          LET r == round_at_read
          IN  /\ nic_log =
                    <<DmaEv("pull", pcis_read_bufs(r), WindowBytes, WindowBytes),
                      BufEv("set_sentinel", pcis_read_bufs(r))>>
                    \o (IF loopback THEN << >>
                        ELSE <<BufEv("saw_sentinel", pcis_write_bufs(r))>>)
                    \o <<DmaEv("push", pcis_write_bufs(r), WindowBytes, WindowBytes),
                         BufEv("clear_sentinel", pcis_write_bufs(r)),
                         Ev("flip")>>
              /\ currentround = 1 - r
    /\ (~loopback /\ nic_pc \in {"push", "clear"}) =>
          sentinel[<<"stn", currentround>>] = 1

\* C11 witness: not in loopback, a round on index 1 has completed.
C11_Witness ==
    /\ nic_pc = "loop"
    /\ ~loopback
    /\ round_at_read = 1
    /\ Len(nic_log) = 6

\* C12: double-buffer exclusion (not in loopback).  With a peer that keeps
\* to the sentinel discipline, at whatever pace, the endpoint pulls into
\* pcis_read_bufs[r] only while that buffer's sentinel is 0, and the only
\* sentinel writes of the endpoint are 1 to a read buffer and 0 to a write
\* buffer.
C12_DoubleBufferExclusion ==
    [][ ~nic_args.loopback =>
          /\ (nic_pc = "tick_check" /\ nic_pc' = "publish")
                => sentinel[<<"nts", currentround>>] = 0
          /\ (nic_pc' # nic_pc)
                => \A b \in NicBuffers :
                      sentinel'[b] # sentinel[b]
                         => \/ b[1] = "nts" /\ sentinel'[b] = 1
                            \/ b[1] = "stn" /\ sentinel'[b] = 0
      ]_vars


\* The log of a completed loopback round on index r.
LoopbackRoundLog(r) ==
    <<DmaEv("pull", <<"loop", r>>, WindowBytes, WindowBytes),
      BufEv("set_sentinel", <<"loop", r>>),
      DmaEv("push", <<"loop", r>>, WindowBytes, WindowBytes),
      BufEv("clear_sentinel", <<"loop", r>>),
      Ev("flip")>>

\* C13 (as stated): loopback lockstep.  In loopback, with an FPGA that has a
\* full window out and room for a full window in, each invocation of tick()
\* performs exactly one pull and one push of BUF_BYTES bytes, sets the
\* sentinel to 1 and then to 0 once, flips currentround once, and returns:
\* after its first round the invocation does not start a second one.
C13_OneRoundPerInvocation ==
    loopback =>
        /\ nic_pc = "loop" => nic_log = LoopbackRoundLog(round_at_read)
        /\ inv_rounds <= 1
        /\ (nic_pc = "tick_check" /\ inv_rounds = 1) => ~FullWindow(tokens_this_round)

\* C13 (amended): loopback lockstep, per round.  In loopback every completed
\* round of tick()'s loop performs exactly one pull and one push of BUF_BYTES
\* bytes on the buffer of index r = currentround at its start, sets that
\* buffer's sentinel to 1 and then to 0 (it is 0 when the round ends) and
\* flips currentround once; successive rounds run on indices 0, 1, 0, ...
\* whether they belong to one invocation or to several.  An invocation
\* returns only when a register read shows no full window.
C13_LoopbackRounds ==
    loopback =>
        /\ nic_pc = "loop" =>
              /\ nic_log = LoopbackRoundLog(round_at_read)
              /\ sentinel[<<"loop", round_at_read>>] = 0
              /\ currentround = 1 - round_at_read
        /\ \A i \in DOMAIN round_hist : round_hist[i] = (i - 1) % 2
        /\ (nic_pc = "idle" /\ tokens_this_round # -1) => ~FullWindow(tokens_this_round)

\* C13 witness: three rounds were completed on indices 0, 1, 0 in loopback,
\* all three within one invocation of tick().
C13_Witness ==
    /\ loopback
    /\ nic_pc = "loop"
    /\ round_hist = <<0, 1, 0>>
    /\ inv_rounds = 3

IsDma(ev) == ev.ev \in {"pull", "push"}
IsShort(ev) == IsDma(ev) /\ ev.got # ev.req
ShortSeen == \E i \in DOMAIN nic_log : IsShort(nic_log[i])

\* C14: short DMA transfers are fatal.  In init() and in every round of
\* tick(), once a pull or push has returned a byte count different from the
\* one requested, no further pull or push is issued, currentround is not
\* flipped for that round, the endpoint reaches the fatal state, and the
\* fatal state is final.
C14_ShortTransferFatal ==
    /\ [](ShortSeen =>
            /\ \A i, j \in DOMAIN nic_log : (IsShort(nic_log[i]) /\ i < j) => ~IsDma(nic_log[j])
            /\ \A i \in DOMAIN nic_log : nic_log[i].ev # "flip"
            /\ currentround = round_at_read
            /\ nic_pc \in {"publish", "check_pull", "clear", "check_push", "fatal"})
    /\ [][nic_pc = "fatal" =>
            /\ nic_pc' = "fatal"
            /\ nic_log' = nic_log
            /\ currentround' = currentround]_vars
    /\ (ShortSeen ~> nic_pc = "fatal")

\* C14 witness: a round of tick() whose pull was complete and whose push was
\* short has ended in the fatal state.
C14_Witness ==
    /\ nic_pc = "fatal"
    /\ Len(nic_log) >= 2
    /\ nic_log[1].ev = "pull" /\ ~IsShort(nic_log[1])
    /\ \E i \in DOMAIN nic_log : nic_log[i].ev = "push" /\ IsShort(nic_log[i])

\* C15: init contract.  init() writes the MAC halves and rlimit_settings,
\* then reads the two counters; it goes to the fatal state unless
\* incoming_count = 0 and outgoing_count = (TOKENS_PER_BIGTOKEN = 1 ? 1 : 0);
\* otherwise it issues exactly one push of BUF_WIDTH_BITS * SIMLATENCY_BT
\* bytes from pcis_write_bufs[1] and no pull.  No statement of init() changes
\* a sentinel byte or currentround.
C15_InitContract ==
    [][ /\ (nic_pc = "constructed" /\ nic_pc' # nic_pc) =>
              /\ nic_log' = <<Ev("write_macaddr_upper"), Ev("write_macaddr_lower"),
                              Ev("write_rlimit_settings"),
                              Ev("read_outgoing_count"), Ev("read_incoming_count")>>
              /\ nic_pc' \in {"init_push", "fatal"}
              /\ nic_pc' = "init_push" <=>
                    /\ incoming_count = 0
                    /\ outgoing_count = (IF NIC_TOKENS_PER_BIGTOKEN = 1 THEN 1 ELSE 0)
              /\ UNCHANGED <<sentinel, currentround>>
        /\ (nic_pc = "init_push" /\ nic_pc' # nic_pc) =>
              /\ Len(nic_log) = 5
              /\ \A i \in DOMAIN nic_log : ~IsDma(nic_log[i])
              /\ \E got \in {0, BUF_WIDTH_BITS * SIMLATENCY_BT} :
                    nic_log' = Append(nic_log, DmaEv("push", pcis_write_bufs(1),
                                                     BUF_WIDTH_BITS * SIMLATENCY_BT, got))
              /\ nic_pc' \in {"idle", "fatal"}
              /\ UNCHANGED <<sentinel, currentround>> ]_vars

\* C15 witness: init() has run to its end on a freshly booted FPGA: the
\* three writes, the two reads and the one push are in the log.
C15_Witness ==
    /\ nic_pc = "idle"
    /\ tokens_this_round = -1
    /\ Len(nic_log) = 6
    /\ nic_log[6] = DmaEv("push", pcis_write_bufs(1), WindowBytes, WindowBytes)

\* The configuration errors of the endpoint's command line.
ConfigError(a) ==
    \/ a.mac # "ok"
    \/ a.linklatency <= 0
    \/ a.linklatency % NIC_TOKENS_PER_BIGTOKEN # 0
    \/ a.netbw > MAX_BANDWIDTH
    \/ a.netburst >= NETBURST_LIMIT
    \/ (~a.loopback /\ ~a.shmemportname)

\* C16: configuration errors fail fast.  An endpoint constructed with a
\* malformed MAC address, a link latency that is not positive or not a
\* multiple of TOKENS_PER_BIGTOKEN, a bandwidth above MAX_BANDWIDTH, a burst
\* of 256 or more, or no shared-memory port name outside loopback, ends in
\* the terminated state: init() and tick() never run on it.
C16_ConfigErrorsFailFast ==
    (nic_pc # "off" /\ ConfigError(nic_args)) => nic_pc \in {"start", "aborted"}

(***************************************************************************)
(* Claims about main() of the switch (SpecSwitch).                         *)
(***************************************************************************)
BadSwitchArgs ==
    \/ sw_args.argc < MIN_ARGC
    \/ sw_args.linklatency % TOKENS_PER_BIGTOKEN # 0
InMainLoop == pc \notin {"off", "start", "exit1"}

\* C17: start-up validation.  With fewer than three arguments, or with a
\* LINKLATENCY that is not a multiple of TOKENS_PER_BIGTOKEN (7), the switch
\* exits with status 1 before any port is constructed and before any send
\* or recv; in every state of the main loop LINKLATENCY is a multiple of
\* TOKENS_PER_BIGTOKEN.
C17_StartupValidation ==
    /\ (pc # "off" /\ BadSwitchArgs) =>
          /\ pc \in {"start", "exit1"}
          /\ ~ports_constructed
          /\ phase_log = << >>
    /\ pc = "exit1" => BadSwitchArgs
    /\ InMainLoop =>
          /\ sw_args.linklatency % TOKENS_PER_BIGTOKEN = 0
          /\ sw_args.linklatency = LINKLATENCY
          /\ ports_constructed

\* C17 witness: a command line with all three arguments was turned down for
\* its link latency.
C17_Witness ==
    /\ pc = "exit1"
    /\ sw_args.argc >= MIN_ARGC
    /\ sw_args.linklatency % TOKENS_PER_BIGTOKEN # 0

\* The phases of one iteration of main()'s loop, in program order.
PhaseOrder ==
    <<"send">> \o [i \in 1 .. NUMPORTS |-> "recv"]
        \o <<"tick_pre", "do_fast_switching", "advance", "tick">>
InDoFastSwitching == pc \in {"drain", "route", "emit", "crashed"}

\* C18: phase order of the main loop.  Every iteration runs send() on all
\* ports, recv() on all ports, tick_pre() on all ports, do_fast_switching(),
\* this_iter_cycles_start += LINKLATENCY and tick() on all ports, in this
\* order, each phase complete before the next begins; during the n-th call
\* of do_fast_switching (n from 0) this_iter_cycles_start = n * LINKLATENCY;
\* and the windows switched are the ones recv() delivered in this iteration:
\* only recv() writes them.
C18_PhaseOrder ==
    /\ [](InMainLoop =>
            /\ Len(phase_log) <= Len(PhaseOrder)
            /\ phase_log = SubSeq(PhaseOrder, 1, Len(phase_log))
            /\ pc = "recv" => Len(phase_log) = 1 + recv_port
            /\ pc = "tick_pre" => Len(phase_log) = 1 + NUMPORTS
            /\ pc = "switching" => Len(phase_log) = 2 + NUMPORTS
            /\ InDoFastSwitching =>
                  /\ Len(phase_log) = 3 + NUMPORTS
                  /\ this_iter_cycles_start = dfs_calls * LINKLATENCY
            /\ pc = "advance" => Len(phase_log) = 3 + NUMPORTS
            /\ pc = "tick" => Len(phase_log) = 4 + NUMPORTS
            /\ pc = "send" => Len(phase_log) \in {0, Len(PhaseOrder)})
    /\ [][current_input_buf' # current_input_buf => (pc = "recv" /\ pc' \in {"recv", "tick_pre"})]_vars

\* C18 witness: the second call of do_fast_switching is under way.
C18_Witness ==
    /\ pc = "route"
    /\ dfs_calls = 1
    /\ this_iter_cycles_start = LINKLATENCY

(***************************************************************************)
(* Claims about timestamps and the order of routing (SpecSwitch).          *)
(***************************************************************************)
\* The packets port p holds after reassembly: the completed ones, then the
\* one still in progress.
AfterReassembly(inq, iip, p) ==
    inq[p] \o (IF iip[p] = NULL THEN << >> ELSE <<iip[p]>>)

\* C19: timestamp assignment.  In the reassembly step every packet created
\* has sender = its ingress port and timestamp = this_iter_cycles_start +
\* s + SWITCHLATENCY, where s is the token slot of its first flit, a flit
\* that was valid on the wire; a packet carried over from an earlier window
\* keeps its timestamp and sender; and the packets completed on one port
\* have strictly increasing timestamps in inputqueue order.
C19_TimestampAssignment ==
    [][ (pc = "switching" /\ pc' = "drain") =>
          \A p \in Ports :
              LET held == AfterReassembly(inputqueue', input_in_progress', p)
              IN  /\ \A i \in DOMAIN held :
                        IF held[i].id >= next_alloc
                        THEN /\ held[i].sender = p
                             /\ \E s \in 0 .. NUM_TOKENS - 1 :
                                   /\ WireValidBit(current_input_buf[p], s)
                                   /\ get_flit(current_input_buf[p], s) = held[i].dat[1]
                                   /\ held[i].timestamp =
                                         this_iter_cycles_start + s + SWITCHLATENCY
                        ELSE /\ held[i].id = input_in_progress[p].id
                             /\ held[i].timestamp = input_in_progress[p].timestamp
                             /\ held[i].sender = input_in_progress[p].sender
                  /\ \A i, j \in DOMAIN inputqueue'[p] :
                        i < j => inputqueue'[p][i].timestamp < inputqueue'[p][j].timestamp
      ]_vars

\* C20: stable tie-break.  Within one invocation of do_fast_switching,
\* packets with equal timestamps are routed in the order they were inserted
\* into the priority queue, that is in ascending ingress-port order; two
\* such packets for the same output port are appended to its outputqueue in
\* ascending sender order.
C20_StableTieBreak ==
    pc \in {"route", "emit"} =>
        \A i, j \in DOMAIN routed :
            (i < j /\ routed[i].timestamp = routed[j].timestamp)
                => routed[i].sender <= routed[j].sender

(***************************************************************************)
(* Further claims about the NIC endpoint.                                  *)
(***************************************************************************)
InTick == nic_pc \in {"tick_check", "publish", "check_pull", "poll", "push",
                      "clear", "check_push", "loop"}
InRound == nic_pc \in {"publish", "check_pull", "poll", "push", "clear", "check_push"}
PeerNotReady == ~loopback /\ sentinel[pcis_write_bufs(currentround)] = 0

\* C21: blocking and liveness of tick().  Outside loopback a started round
\* does not go on to the push while the peer's sentinel on
\* pcis_write_bufs[currentround] is 0: the endpoint stays in its poll, with
\* no timeout and no error.  tick() returns exactly when a register read
\* shows less than a full window.  With a fair peer every started round
\* ends (completed, or fatal on a short transfer), and a read that shows
\* less than a full window is followed by the return.
C21_TickBlockingAndLiveness ==
    /\ [][ /\ (nic_pc = "poll" /\ PeerNotReady) =>
                 (nic_pc' = "poll" /\ nic_log' = nic_log /\ currentround' = currentround)
           /\ (nic_pc' = "push" /\ nic_pc # "push" /\ ~loopback) =>
                 sentinel[pcis_write_bufs(currentround)] # 0
           /\ (InTick /\ nic_pc' = "idle") =>
                 (nic_pc = "tick_check" /\ ~FullWindow(tokens_this_round))
           /\ (nic_pc = "tick_check" /\ nic_pc' # nic_pc) =>
                 (nic_pc' = "idle" <=> ~FullWindow(tokens_this_round)) ]_vars
    /\ (InRound ~> nic_pc \in {"loop", "fatal"})
    /\ ((nic_pc = "tick_check" /\ ~FullWindow(tokens_this_round)) ~> nic_pc = "idle")

\* C21 witness: outside loopback a round was held in its poll by the peer
\* and then went on to the push once the sentinel was set.
C21_Witness ==
    /\ ~loopback
    /\ nic_pc = "push"
    /\ sentinel[pcis_write_bufs(currentround)] = 1
    /\ nic_log[Len(nic_log)] = BufEv("saw_sentinel", pcis_write_bufs(currentround))

\* The round that is ending transferred the full window in both directions.
BothTransfersFull ==
    /\ \E i \in DOMAIN nic_log : nic_log[i].ev = "pull" /\ ~IsShort(nic_log[i])
    /\ \E i \in DOMAIN nic_log : nic_log[i].ev = "push" /\ ~IsShort(nic_log[i])
    /\ \A i \in DOMAIN nic_log : ~IsShort(nic_log[i])

\* C22: double-buffer index.  currentround is always 0 or 1; it changes
\* only in the last step of a round whose pull and push both transferred
\* the full window, and then to the other index; every such round changes
\* it; so after k completed rounds, over any number of invocations of
\* tick(), currentround = k mod 2.
C22_RoundIndex ==
    /\ [](nic_pc # "off" =>
            /\ currentround \in {0, 1}
            /\ Len(round_hist) < MaxRoundsTracked => currentround = Len(round_hist) % 2)
    /\ [][ /\ currentround' # currentround =>
                 /\ nic_pc = "check_push" /\ nic_pc' = "loop"
                 /\ BothTransfersFull
                 /\ currentround' = 1 - currentround
           /\ (nic_pc = "check_push" /\ nic_pc' = "loop") => currentround' # currentround
           /\ (nic_pc = "check_push" /\ nic_pc' # nic_pc /\ BothTransfersFull) => nic_pc' = "loop"
         ]_vars

\* C22 witness: two rounds were completed in two different invocations of
\* tick() and the index is back at 0.
C22_Witness ==
    /\ nic_pc = "loop"
    /\ round_hist = <<0, 1>>
    /\ inv_rounds = 1
    /\ currentround = 0

(***************************************************************************)
(* Claims about the rate limiter's set-up (SpecRlimit).                    *)
(***************************************************************************)
RECURSIVE Gcd(_, _)
Gcd(a, b) == IF b = 0 THEN a ELSE Gcd(b, a % b)

\* The three fields of the register, read back.
FieldBurst(reg) == reg.lo % Pow2(MAX_BANDWIDTH_BITS)
FieldPeriod(reg) ==
    (reg.lo \div Pow2(MAX_BANDWIDTH_BITS))
        + (reg.hi % Pow2(2 * MAX_BANDWIDTH_BITS - 16)) * Pow2(16 - MAX_BANDWIDTH_BITS)
FieldInc(reg) == reg.hi \div Pow2(2 * MAX_BANDWIDTH_BITS - 16)

\* C23: rate-limit fraction and register packing.  For every netbw in
\* 1 .. MAX_BANDWIDTH, simplify_frac gives rlimit_inc and rlimit_period with
\* rlimit_inc * MAX_BANDWIDTH = netbw * rlimit_period and gcd 1 (likewise
\* throttle_numer and throttle_denom for the switch's bandwidth and MAX_BW);
\* and for every (netbw, netburst) the constructor accepts, the value
\* written to rlimit_settings reads back field by field as rlimit_inc,
\* rlimit_period - 1 and netburst, the two low fields fitting in
\* MAX_BANDWIDTH_BITS bits each.
C23_RateLimitPacking ==
    /\ (rl_pc \in {"constructed", "written"} /\ netbw \in 1 .. MAX_BANDWIDTH) =>
          /\ rlimit_inc * MAX_BANDWIDTH = netbw * rlimit_period
          /\ rlimit_inc > 0 /\ rlimit_period > 0
          /\ Gcd(rlimit_inc, rlimit_period) = 1
    /\ (thr_pc = "set" /\ argv_bandwidth \in 1 .. MAX_BW) =>
          /\ throttle.nn * MAX_BW = argv_bandwidth * throttle.dd
          /\ throttle.nn > 0 /\ throttle.dd > 0
          /\ Gcd(throttle.nn, throttle.dd) = 1
    /\ rl_pc = "written" =>
          /\ FieldInc(rlimit_settings) = rlimit_inc
          /\ FieldPeriod(rlimit_settings) = rlimit_period - 1
          /\ FieldBurst(rlimit_settings) = netburst
          /\ rlimit_period - 1 \in 0 .. Pow2(MAX_BANDWIDTH_BITS) - 1
          /\ netburst \in 0 .. Pow2(MAX_BANDWIDTH_BITS) - 1

(***************************************************************************)
(* Further claims about the codec (SpecCodec).                             *)
(***************************************************************************)
FlitSlot(tokenid) == FlitAddr(tokenid) .. FlitAddr(tokenid) + FLIT_SIZE_BYTES - 1

\* C24: frame condition of write_flit.  A call write_flit(buf, tokenid,
\* bytes) changes only the FLIT_SIZE_BYTES bytes of that token's slot, which
\* then hold bytes; every valid bit, every last bit and every other token's
\* payload are as before; and a second call with the same bytes leaves the
\* window as it is.
C24_WriteFlitFrame ==
    [][ clog' = Append(clog, "write_flit") =>
          /\ \A a \in DOMAIN cbuf : a \notin FlitSlot(ctoken) => cbuf'[a] = cbuf[a]
          /\ DOMAIN cbuf' = DOMAIN cbuf
          /\ get_flit(cbuf', ctoken) = cflit
          /\ \A t \in 0 .. NUM_TOKENS - 1 :
                /\ WireValidBit(cbuf', t) = WireValidBit(cbuf, t)
                /\ WireLastBit(cbuf', t) = WireLastBit(cbuf, t)
                /\ t # ctoken => get_flit(cbuf', t) = get_flit(cbuf, t)
          /\ write_flit(cbuf', ctoken, cflit) = cbuf' ]_vars

\* C24 witness: write_flit was the last of the three writes, on a token whose
\* valid and last bits were already set, with an all-ones payload.
C24_Witness ==
    /\ Len(clog) = 3
    /\ clog[3] = "write_flit"
    /\ clast
    /\ cflit = <<255, 255, 255, 255, 255, 255, 255, 255>>
    /\ WireValidBit(cbuf, ctoken) /\ WireLastBit(cbuf, ctoken)
    /\ get_flit(cbuf, ctoken) = cflit

\* C25: reassembly stays within the packet buffer.  In every reachable state
\* and for every port, the packet under reassembly, and every packet
\* reassembled, has amtwritten <= ETH_MAX_WORDS + ETH_EXTRA_FLITS: no flit
\* is appended past the capacity of dat, whatever run of valid flits without
\* a last bit the port receives.
C25_ReassemblyWithinCapacity ==
    InMainLoop =>
        \A p \in Ports :
            /\ input_in_progress[p] # NULL => input_in_progress[p].amtwritten <= DatCapacity
            /\ \A i \in DOMAIN inputqueue[p] : inputqueue[p][i].amtwritten <= DatCapacity

\* C26: no publication on a failed transfer.  When the pull of a round
\* returned fewer bytes than requested, the endpoint terminates without
\* having set the sentinel of pcis_read_bufs[currentround] to 1; when the
\* push was short, it terminates without having cleared the sentinel of
\* pcis_write_bufs[currentround].
C26_NoPublicationOnFailure ==
    nic_pc = "fatal" =>
        \A i \in DOMAIN nic_log :
            IsShort(nic_log[i]) =>
                \A j \in DOMAIN nic_log :
                    j > i =>
                        /\ nic_log[i].ev = "pull" =>
                              nic_log[j] # BufEv("set_sentinel", pcis_read_bufs(currentround))
                        /\ nic_log[i].ev = "push" =>
                              nic_log[j] # BufEv("clear_sentinel", pcis_write_bufs(currentround))
====
